---- MODULE Spec2Model ----
(***************************************************************************)
(* State-machine model of the notebook                                     *)
(*   demo-python/code/community-integration/langchain/                     *)
(*     azure-search-vector-python-langchain-sample.ipynb                   *)
(*                                                                         *)
(* The notebook is a straight-line script: one kernel runs its code cells  *)
(* in order, each cell to completion.  A Python exception that no cell     *)
(* catches ends the run (the notebook contains no try/except).  The search *)
(* index, the embedding model, the PDF loader and the splitter are         *)
(* external; the model keeps of them only what the notebook observes: the  *)
(* set of chunks the service holds, and whether a call returns or raises.  *)
(***************************************************************************)
EXTENDS Naturals, Integers, Sequences, FiniteSets, TLC

(* ---------------------------------------------------------------- bounds *)
\* Number of chunks load_and_split yields for each PDF.
MaxChunks == 2

(* ------------------------------------------------------------- constants *)
\* k=50 of the three query cells.
K == 50
\* docs[:3] of the three query cells.
SliceLen == 3

None == "<None>"
DefaultAzureCredential == "<DefaultAzureCredential>"
token_provider == "<token_provider>"

\* files = [...] of the ingestion cell.
files == << "Benefit_Options.pdf",
            "Northwind_Health_Plus_Benefits_Details.pdf",
            "Northwind_Standard_Benefits_Details.pdf" >>

\* The two environment variables whose length the notebook tests.
KeyNames == {"AZURE_SEARCH_ADMIN_KEY", "AZURE_OPENAI_KEY"}
\* Values an environment variable can hold: empty, blank or a key.
KeyValues == {"", " ", "secret"}
\* os.environ after load_dotenv: every subset of the names may be set.
Environments == UNION {[S -> KeyValues] : S \in SUBSET KeyNames}

\* Scores the service attaches to a semantic-hybrid result.
ScoreValues == {"lo", "hi"}

VARIABLES
    environ,                 \* os.environ (the keys the notebook tests)
    pc,                      \* the cell the kernel runs next
    exc,                     \* the uncaught exception that ended the run
    key_credential,
    azure_openai_key,
    credential,
    embeddings,              \* the AzureOpenAIEmbeddings client's auth fields
    vector_store,            \* the AzureSearch client's auth field
    index,                   \* chunks held by the search service's index
    file,                    \* position of the ingestion loop in files
    total_chunks,
    docs,                    \* result variable of the query cells
    stdout,                  \* output area of the ingestion cell
    shown                    \* output area of the query cell that ran last

vars == << environ, pc, exc, key_credential, azure_openai_key, credential,
           embeddings, vector_store, index, file, total_chunks, docs, stdout,
           shown >>

(* --------------------------------------------------------------- helpers *)
NoExc == [cell |-> "none", file |-> 0]

\* Python truthiness of a value that is None or a string.
Truthy(x) == x # None /\ Len(x) > 0

\* Python's  a or b.
PyOr(a, b) == IF Truthy(a) THEN a ELSE b

\* os.environ[name] if len(os.environ[name]) > 0 else None
EnvOrNone(name) == IF Len(environ[name]) > 0 THEN environ[name] ELSE None

\* seq[:n]
Take(seq, n) == SubSeq(seq, 1, IF Len(seq) < n THEN Len(seq) ELSE n)

\* loader.load_and_split(splitter) for files[f]: the chunks of one PDF, in order.
file_chunks(f) == [i \in 1..MaxChunks |-> [source |-> files[f], seq |-> i]]

Range(seq) == {seq[i] : i \in DOMAIN seq}

\* Every chunk of every file, in ingestion order.
RECURSIVE ChunksFrom(_)
ChunksFrom(f) == IF f > Len(files) THEN << >> ELSE file_chunks(f) \o ChunksFrom(f + 1)
AllChunks == ChunksFrom(1)

\* What a search call can return: a selection of at most k indexed chunks.
\* The service's ranking is external; a selection is listed in ingestion order.
SearchResults ==
    {SelectSeq(AllChunks, LAMBDA c : c \in T) :
        T \in {U \in SUBSET index : Cardinality(U) <= K}}

\* The print loop of the two similarity_search cells.
DocLines(ds) == [i \in DOMAIN ds |-> [kind |-> "doc", source |-> ds[i].source, seq |-> ds[i].seq]]

\* The print loop of the semantic-hybrid cell (content and score).
ScoredLines(ds) ==
    [i \in DOMAIN ds |-> [kind |-> "scored", source |-> ds[i][1].source,
                          seq |-> ds[i][1].seq, score |-> ds[i][2]]]

(* ------------------------------------------------------------------ Init *)
Init ==
    /\ environ \in Environments
    /\ pc = "cell_env"
    /\ exc = NoExc
    /\ key_credential = None
    /\ azure_openai_key = None
    /\ credential = None
    /\ embeddings = [api_key |-> None, azure_ad_token_provider |-> None]
    /\ vector_store = [azure_search_key |-> None]
    /\ index = {}
    /\ file = 1
    /\ total_chunks = 0
    /\ docs = << >>
    /\ stdout = << >>
    /\ shown = << >>

(* ------------------------------------------------ cell 2: load .env file *)
LoadEnv ==
    /\ pc = "cell_env"
    /\ KeyNames \subseteq DOMAIN environ
    /\ key_credential' = EnvOrNone("AZURE_SEARCH_ADMIN_KEY")
    /\ azure_openai_key' = EnvOrNone("AZURE_OPENAI_KEY")
    /\ credential' = PyOr(key_credential', DefaultAzureCredential)
    /\ pc' = "cell_embeddings"
    /\ UNCHANGED << environ, exc, embeddings, vector_store, index, file,
                    total_chunks, docs, stdout,
                    shown >>

\* os.environ[name] raises KeyError for a name that is not set; the cell stops
\* at the first such line, keeping the assignments made before it.
LoadEnvRaise ==
    /\ pc = "cell_env"
    /\ ~(KeyNames \subseteq DOMAIN environ)
    /\ key_credential' =
          IF "AZURE_SEARCH_ADMIN_KEY" \in DOMAIN environ
          THEN EnvOrNone("AZURE_SEARCH_ADMIN_KEY") ELSE key_credential
    /\ exc' = [cell |-> "cell_env", file |-> 0]
    /\ pc' = "raised"
    /\ UNCHANGED << environ, azure_openai_key, credential, embeddings,
                    vector_store, index, file, total_chunks, docs, stdout,
                    shown >>

(* ------------------------------------- cell 3: AzureOpenAIEmbeddings(...) *)
\* CreateEmbeddings with the token provider passed unconditionally.
CreateEmbeddings_bothAuth ==
    /\ pc = "cell_embeddings"
    /\ embeddings' =
          [api_key |-> azure_openai_key,
           azure_ad_token_provider |-> token_provider]
    /\ pc' = "cell_store"
    /\ UNCHANGED << environ, exc, key_credential, azure_openai_key, credential,
                    vector_store, index, file, total_chunks, docs, stdout,
                    shown >>

CreateEmbeddings ==
    /\ pc = "cell_embeddings"
    /\ embeddings' =
          [api_key |-> azure_openai_key,
           azure_ad_token_provider |->
               IF ~Truthy(azure_openai_key) THEN token_provider ELSE None]
    /\ pc' = "cell_store"
    /\ UNCHANGED << environ, exc, key_credential, azure_openai_key, credential,
                    vector_store, index, file, total_chunks, docs, stdout,
                    shown >>

(* ----------------------------------------------- cell 4: AzureSearch(...) *)
CreateVectorStore ==
    /\ pc = "cell_store"
    /\ vector_store' = [azure_search_key |-> key_credential]
    /\ pc' = "cell_ingest"
    /\ UNCHANGED << environ, exc, key_credential, azure_openai_key, credential,
                    embeddings, index, file, total_chunks, docs, stdout,
                    shown >>

(* ------------------------------------------- cell 5: the ingestion loop *)
\* One iteration of  for file in files  whose add_documents call returns:
\* the service holds every chunk of the file, results has one id per chunk.
IngestFile ==
    /\ pc = "cell_ingest"
    /\ file <= Len(files)
    /\ LET chunks == file_chunks(file)
           results == [i \in DOMAIN chunks |-> chunks[i]]
       IN  /\ index' = index \cup Range(chunks)
           /\ total_chunks' = total_chunks + Len(results)
    /\ stdout' = Append(stdout, [kind |-> "indexed_file", file |-> files[file]])
    /\ file' = file + 1
    /\ UNCHANGED << environ, pc, exc, key_credential, azure_openai_key,
                    credential, embeddings, vector_store, docs,
                    shown >>

\* IngestFileRaise with the exception caught inside the loop: the failure is
\* recorded and the loop goes on to the next file.
IngestFileRaise_caught ==
    /\ pc = "cell_ingest"
    /\ file <= Len(files)
    /\ \E n \in 0..MaxChunks :
          index' = index \cup Range(SubSeq(file_chunks(file), 1, n))
    /\ exc' = [cell |-> "cell_ingest", file |-> file]
    /\ file' = file + 1
    /\ UNCHANGED << environ, pc, key_credential, azure_openai_key, credential,
                    embeddings, vector_store, total_chunks, docs, stdout,
                    shown >>

\* One iteration whose add_documents call raises (embedding or upload
\* failure).  Nothing catches the exception: the loop and the cell end.  How
\* many of the file's chunks the service committed before the failure is the
\* library's and the service's business: any prefix.
IngestFileRaise ==
    /\ pc = "cell_ingest"
    /\ file <= Len(files)
    /\ \E n \in 0..MaxChunks :
          index' = index \cup Range(SubSeq(file_chunks(file), 1, n))
    /\ exc' = [cell |-> "cell_ingest", file |-> file]
    /\ pc' = "raised"
    /\ UNCHANGED << environ, key_credential, azure_openai_key, credential,
                    embeddings, vector_store, file, total_chunks, docs, stdout,
                    shown >>

\* The loop is exhausted: print(f"Indexed {total_chunks} chunks").
IngestDone ==
    /\ pc = "cell_ingest"
    /\ file > Len(files)
    /\ stdout' = Append(stdout, [kind |-> "indexed_total", n |-> total_chunks])
    /\ pc' = "cell_vector"
    /\ UNCHANGED << environ, exc, key_credential, azure_openai_key, credential,
                    embeddings, vector_store, index, file, total_chunks, docs,
                    shown >>

(* ------------------------------------------------- cells 6-8: the queries *)
\* similarity_search(..., k=50, search_type="similarity"); docs = docs[:3]; print.
VectorSearch ==
    /\ pc = "cell_vector"
    /\ \E hits \in SearchResults :
          /\ docs' = Take(hits, SliceLen)
          /\ shown' = DocLines(docs')
    /\ pc' = "cell_hybrid"
    /\ UNCHANGED << environ, exc, key_credential, azure_openai_key, credential,
                    embeddings, vector_store, index, file, total_chunks,
                    stdout >>

\* similarity_search(..., k=50, search_type="hybrid"); docs = docs[:3]; print.
HybridSearch ==
    /\ pc = "cell_hybrid"
    /\ \E hits \in SearchResults :
          /\ docs' = Take(hits, SliceLen)
          /\ shown' = DocLines(docs')
    /\ pc' = "cell_semantic"
    /\ UNCHANGED << environ, exc, key_credential, azure_openai_key, credential,
                    embeddings, vector_store, index, file, total_chunks,
                    stdout >>

\* semantic_hybrid_search_with_score(..., k=50); [:3]; print content and score.
\* The scores are the service's; one value per call stands for them.  The
\* answers and captions branches of the print loop only choose what is printed.
SemanticHybridSearch ==
    /\ pc = "cell_semantic"
    /\ \E hits \in SearchResults, score \in ScoreValues :
          LET docs_and_scores == [i \in DOMAIN hits |-> << hits[i], score >>]
          IN  /\ docs' = Take(docs_and_scores, SliceLen)
              /\ shown' = ScoredLines(docs')
    /\ pc' = "done"
    /\ UNCHANGED << environ, exc, key_credential, azure_openai_key, credential,
                    embeddings, vector_store, index, file, total_chunks,
                    stdout >>

\* A query call raises (embedding provider or search service failure): the
\* assignment does not happen and nothing is printed.
QueryRaise ==
    /\ pc \in {"cell_vector", "cell_hybrid", "cell_semantic"}
    /\ exc' = [cell |-> pc, file |-> 0]
    /\ pc' = "raised"
    /\ UNCHANGED << environ, key_credential, azure_openai_key, credential,
                    embeddings, vector_store, index, file, total_chunks, docs,
                    stdout,
                    shown >>

(* ------------------------------------------------------------------ Next *)
Next ==
    \/ LoadEnv
    \/ LoadEnvRaise
    \/ CreateEmbeddings
    \/ CreateVectorStore
    \/ IngestFile
    \/ IngestFileRaise
    \/ IngestDone
    \/ VectorSearch
    \/ HybridSearch
    \/ SemanticHybridSearch
    \/ QueryRaise

Spec == Init /\ [][Next]_vars

(* ------------------------------------------------------------ properties *)
QueryCells == {"cell_vector", "cell_hybrid", "cell_semantic"}

\* The ingestion cell has finished, normally or by an exception.
IngestionEnded ==
    \/ exc.cell = "cell_ingest"
    \/ pc \in QueryCells \cup {"done"}
    \/ exc.cell \in QueryCells

\* The chunks some printed line reports as failed.
ReportedFailed ==
    {c \in Range(AllChunks) :
        \E i \in DOMAIN stdout :
            /\ stdout[i].kind = "failed"
            /\ stdout[i].source = c.source
            /\ stdout[i].seq = c.seq}

\* The line "Indexed N chunks" has been printed.
TotalPrinted == \E i \in DOMAIN stdout : stdout[i].kind = "indexed_total"

\* The position in files of the file a chunk comes from.
FileOf(c) == CHOOSE f \in DOMAIN files : files[f] = c.source

\* C3 as stated: once ingestion has ended, every input chunk is either indexed
\* or reported as failed, never both and never neither.
C3_EveryChunkIndexedOrReported ==
    IngestionEnded =>
        \A c \in Range(AllChunks) : (c \in index) # (c \in ReportedFailed)

\* C3 amended: the ingestion loop has no per-chunk error handling.  When
\* add_documents raises for a file the run ends there: no later file is
\* submitted, the files before it are indexed and counted in total_chunks, no
\* failure is reported and the total line is not printed.  The total line is
\* printed only when the call returned for every file, and then total_chunks
\* is the number of all chunks and all of them are indexed.
C3_IngestionAbortsOnFailure ==
    /\ exc.cell = "cell_ingest" =>
          /\ pc = "raised"
          /\ \A c \in index : FileOf(c) <= exc.file
          /\ \A f \in 1..(exc.file - 1) : Range(file_chunks(f)) \subseteq index
          /\ total_chunks = (exc.file - 1) * MaxChunks
          /\ ~TotalPrinted
          /\ ReportedFailed = {}
    /\ TotalPrinted =>
          /\ exc.cell # "cell_ingest"
          /\ Range(AllChunks) \subseteq index
          /\ total_chunks = Len(AllChunks)

\* add_documents raised for the second file after the service had committed a
\* proper, non-empty part of it; the first file is indexed.
C3_Witness ==
    /\ exc = [cell |-> "cell_ingest", file |-> 2]
    /\ pc = "raised"
    /\ Range(file_chunks(1)) \subseteq index
    /\ file_chunks(2)[1] \in index
    /\ file_chunks(2)[MaxChunks] \notin index
    /\ total_chunks = MaxChunks

\* The embeddings client has been constructed (cell 3 has run).
EmbeddingsCreated ==
    \/ pc \in {"cell_store", "cell_ingest", "done"} \cup QueryCells
    \/ pc = "raised" /\ exc.cell # "cell_env"

\* C11: whatever value AZURE_OPENAI_KEY holds, the embeddings client is given
\* exactly one authentication mechanism: a non-empty key is passed as api_key
\* with no token provider; an empty key gives api_key None and the bearer-token
\* provider.
C11_ExactlyOneAuth ==
    EmbeddingsCreated =>
        IF Len(environ["AZURE_OPENAI_KEY"]) > 0
        THEN /\ embeddings.api_key = environ["AZURE_OPENAI_KEY"]
             /\ embeddings.azure_ad_token_provider = None
        ELSE /\ embeddings.api_key = None
             /\ embeddings.azure_ad_token_provider = token_provider

\* The client was constructed from an empty AZURE_OPENAI_KEY: token provider only.
C11_Witness ==
    /\ EmbeddingsCreated
    /\ environ["AZURE_OPENAI_KEY"] = ""
    /\ embeddings = [api_key |-> None, azure_ad_token_provider |-> token_provider]

\* The client was constructed from a non-empty AZURE_OPENAI_KEY: api_key only.
C11_WitnessKey ==
    /\ EmbeddingsCreated
    /\ environ["AZURE_OPENAI_KEY"] = " "
    /\ embeddings = [api_key |-> " ", azure_ad_token_provider |-> None]

====
